---- MODULE Spec2Model ----
(***************************************************************************)
(* Model of babymonitor's cry detector (audio_detection.py): the capture   *)
(* thread CryDetector.run, the audio callback that feeds its queue, and    *)
(* the controls pause / resume / stop called from other threads; and of    *)
(* what the application builds around it: the WAV normaliser, the lullaby  *)
(* player (lullaby_player.py) with its HTTP handlers, and SystemState      *)
(* (app.py).                                                               *)
(*                                                                         *)
(* Energies, samples and the threshold are in hundredths (12 is 0.12);     *)
(* times and the cooldown are in whole seconds.                            *)
(***************************************************************************)
EXTENDS Integers, Sequences, FiniteSets, TLC

\* ------------------------------------------------------------------ bounds
\* Frames the audio callback delivers in one behaviour.
MaxFrames == 3
\* Largest clock reading.
MaxTime == 4
\* Largest cry_frames_required the configurations draw.
MaxFramesRequired == 2
\* Longest array of samples handed to normalise_audio.
MaxSamples == 2
\* HTTP requests served in one behaviour.
MaxRequests == 3

\* ------------------------------------------------------- program constants
DefaultSampleRate == 16000
FallbackRate == 48000
DefaultThreshold == 12

\* A sample that is not finite (NaN or an infinity).
NonFinite == 1000

\* ------------------------------------------------------------------- state
VARIABLES
    config,            \* threshold, frames_required, event_cooldown, on_cry_callback
    sample_rate,       \* self.sample_rate
    running,           \* self._running
    paused,            \* self._paused
    cry_frame_count,   \* self._cry_frame_count
    last_event_time,   \* self._last_event_time
    audio_queue,       \* self._audio_queue
    pc,                \* position of the capture thread in run()
    frame,             \* run's local `frame`: the frame just dequeued
    stream,            \* run's local `stream`: none, open, active or closed
    exc,               \* the exception in flight inside run, if any
    now,               \* latest reading of the clock
    attempts,          \* history: the _open_stream calls and their outcomes
    produced,          \* history: frames delivered by the audio callback
    loudRun,           \* history: length of the run of loud frames that ends with
                       \*          the frame evaluated last
    prevLoudRun,       \* history: loudRun before the frame evaluated last
    events,            \* history: number of events fired
    lastEvent,         \* history: the event fired last
    stopCalled,        \* history: stop() has been called
    pausedProcessed,   \* history: frames evaluated while paused, since the last resume()
    idle               \* history, kept unless idle.track is off: what the loop did since the
                       \*          frame evaluated last (timed out, dropped a frame)

\* State of the rest of the application; the detector's steps leave it alone.
VARIABLES
    wav_data,          \* analyse_training_wavs: the samples read from a WAV file
    wav_out,           \* analyse_training_wavs: the normalised samples
    lullaby_process,   \* lullaby_player._lullaby_process: 0 is None, else a process id
    procs,             \* the playback processes started so far, by id
    reqs,              \* the HTTP requests being served, each at its position
    system_state,      \* app.system_state: last_cry_time, cry_count and its lock
    cry_thread,        \* position of the capture thread inside record_cry
    snapshot,          \* history: the dictionary to_dict returned last
    recorded           \* history: record_cry calls that have returned

appVars == <<wav_data, wav_out, lullaby_process, procs, reqs, system_state,
             cry_thread, snapshot, recorded>>

\* The detector's variables but paused, which the HTTP handlers write too.
detectorRest == <<config, sample_rate, running, cry_frame_count, last_event_time,
                  audio_queue, pc, frame, stream, exc, now, attempts, produced,
                  loudRun, prevLoudRun, events, lastEvent, stopCalled,
                  pausedProcessed, idle>>

vars == <<detectorRest, paused, appVars>>

NoFrame == [samples |-> <<>>, enqPaused |-> FALSE]

NoEvent == [t |-> 0, energy |-> 0, callback |-> "none"]

\* The idle history follows one kind of iteration that evaluates no frame, the
\* read timeouts or the frames dropped at the pause check: seen tells whether
\* there was one since the frame evaluated last, seenBefore whether there was
\* one between the two frames evaluated last. Not kept, and kept but empty:
IdleOff == [track |-> "off", seen |-> FALSE, seenBefore |-> FALSE]

IdleTimeouts == [track |-> "timeouts", seen |-> FALSE, seenBefore |-> FALSE]

IdleDrops == [track |-> "drops", seen |-> FALSE, seenBefore |-> FALSE]

NoteTimeout(i) == IF i.track = "timeouts" THEN [i EXCEPT !.seen = TRUE] ELSE i

NoteDropped(i) == IF i.track = "drops" THEN [i EXCEPT !.seen = TRUE] ELSE i

NoteEvaluated(i) ==
    IF i.track # "off"
    THEN [track |-> i.track, seen |-> FALSE, seenBefore |-> i.seen]
    ELSE i

\* ----------------------------------------------------------- pure functions
IsFinite(x) == x # NonFinite

RECURSIVE SumSquares(_)
SumSquares(s) == IF s = <<>> THEN 0 ELSE Head(s) * Head(s) + SumSquares(Tail(s))

RECURSIVE FiniteOnly(_)
FiniteOnly(s) ==
    IF s = <<>> THEN <<>>
    ELSE IF IsFinite(Head(s)) THEN <<Head(s)>> \o FiniteOnly(Tail(s))
         ELSE FiniteOnly(Tail(s))

\* Largest r with r * r <= n: np.sqrt, rounded down to a whole hundredth.
ISqrt(n) == CHOOSE r \in 0..n : r * r <= n /\ (r + 1) * (r + 1) > n

\* RMS of the finite samples, 0 for an empty frame or one with no finite sample.
compute_frame_energy(samples) ==
    IF Len(samples) = 0 THEN 0
    ELSE LET fin == FiniteOnly(samples) IN
         IF Len(fin) = 0 THEN 0
         ELSE ISqrt(SumSquares(fin) \div Len(fin))

\* The frames the microphone delivers: a quiet one (energy 0.05) and one whose
\* energy is exactly the default threshold (0.12), the least loud frame.
FrameSet == { <<5, 5>>, <<12, 12>> }

\* ------------------------------------------------------ decision predicates
\* Variant of Loud: the threshold must be exceeded, not just reached.
LoudStrict(energy) == energy > config.threshold

\* line 170
Loud(energy) == energy >= config.threshold

\* Variant of NextCount: a quiet frame leaves the counter as it is.
NextCountNoReset(energy) ==
    IF Loud(energy) THEN cry_frame_count + 1 ELSE cry_frame_count

\* lines 170-173: the counter after a frame of this energy
NextCount(energy) == IF Loud(energy) THEN cry_frame_count + 1 ELSE 0

\* line 175
RunComplete(count) == count >= config.frames_required

\* Variant of CooldownElapsed: the cooldown must be exceeded, not just reached.
CooldownElapsedStrict(t) == t - last_event_time > config.event_cooldown

\* line 176
CooldownElapsed(t) == t - last_event_time >= config.event_cooldown

\* Variant of RetryOn: every failed open is retried.
RetryOnAny(outcome) == outcome # "ok"

\* line 146: the open errors that are retried at the fallback rate
RetryOn(outcome) == outcome = "invalid_sample_rate"

\* Variant of SkipFrame: the pause flag is not consulted.
SkipFrameNever == FALSE

\* line 162: whether the frame just dequeued is skipped
SkipFrame == paused

\* line 178: the time recorded for an event fired at clock reading t
EventTime(t) == t

\* line 181: the counter after a run of frames_required frames was evaluated
CountAfterRun(count) == 0

\* Variant of FinallyRunning: the flag is left as it is.
FinallyRunningKept == running

\* line 188
FinallyRunning == FALSE

\* line 137
RunBeginRunning == TRUE

\* line 122, with frame_duration at its default of 0.5 s (line 78)
blocksize(samplerate) == IF samplerate \div 2 > 1 THEN samplerate \div 2 ELSE 1

OpenOutcomes == {"ok", "invalid_sample_rate", "other_error"}

\* -------------------------------------------------------------------- Init
\* The configurations __init__ reads (lines 76-93). The callback is the one
\* the application passes, app.py line 137.
Configs ==
    [threshold : {DefaultThreshold},
     frames_required : 1..MaxFramesRequired,
     event_cooldown : {0, 2},
     on_cry_callback : {TRUE}]

\* No array normalised yet.
NotNormalised == [done |-> FALSE, samples |-> <<>>]

\* No WAV analysis under way.
WavIdle ==
    /\ wav_data = [kind |-> "int", width |-> 8, samples |-> <<>>]
    /\ wav_out = NotNormalised

\* lullaby_player as imported (lines 8-9), and no request served yet.
LullabyIdle ==
    /\ lullaby_process = 0
    /\ procs = <<>>
    /\ reqs = <<>>

\* The JSON value null, and the string datetime t is formatted to.
JsonNull == [null |-> TRUE, iso |-> 0]

JsonTime(t) == [null |-> FALSE, iso |-> t]

\* SystemState() as constructed (app.py lines 49-52), where last_cry_time = 0
\* stands for None; nothing recorded or read.
StateIdle ==
    /\ system_state = [last_cry_time |-> 0, cry_count |-> 0, lock |-> "free"]
    /\ cry_thread = "idle"
    /\ snapshot = [taken |-> FALSE, last_cry_time |-> JsonNull, cry_count |-> 0]
    /\ recorded = 0

\* The application before any request, cry or WAV analysis.
AppIdle == WavIdle /\ LullabyIdle /\ StateIdle

\* The detector as __init__ leaves it, configured from cfgs.
DetectorStart(cfgs) ==
    /\ config \in cfgs
    /\ sample_rate = DefaultSampleRate
    /\ running = FALSE
    /\ paused = FALSE
    /\ cry_frame_count = 0
    /\ last_event_time = 0
    /\ audio_queue = <<>>
    /\ pc = "init"
    /\ frame = NoFrame
    /\ stream = "none"
    /\ exc = "none"
    /\ now = 0
    /\ attempts = <<>>
    /\ produced = 0
    /\ loudRun = 0
    /\ prevLoudRun = 0
    /\ events = 0
    /\ lastEvent = NoEvent
    /\ stopCalled = FALSE
    /\ pausedProcessed = 0

DetectorInit == DetectorStart(Configs)

Init == DetectorInit /\ idle = IdleOff /\ AppIdle

\* --------------------------------------------------------- external controls
\* Thread.start(): the thread is scheduled; run() has not begun.
Start ==
    /\ pc = "init"
    /\ pc' = "ready"
    /\ UNCHANGED <<appVars, idle, config, sample_rate, running, paused, cry_frame_count,
                   last_event_time, audio_queue, frame, stream, exc, now, attempts,
                   produced, loudRun, prevLoudRun, events, lastEvent, stopCalled,
                   pausedProcessed>>

Pause ==
    /\ paused' = TRUE
    /\ UNCHANGED <<appVars, idle, config, sample_rate, running, cry_frame_count, last_event_time,
                   audio_queue, pc, frame, stream, exc, now, attempts, produced,
                   loudRun, prevLoudRun, events, lastEvent, stopCalled, pausedProcessed>>

\* Variant of Resume: detection restarts from an empty run.
ResumeResetting ==
    /\ paused' = FALSE
    /\ pausedProcessed' = 0
    /\ cry_frame_count' = 0
    /\ UNCHANGED <<appVars, idle, config, sample_rate, running, last_event_time,
                   audio_queue, pc, frame, stream, exc, now, attempts, produced,
                   loudRun, prevLoudRun, events, lastEvent, stopCalled>>

Resume ==
    /\ paused' = FALSE
    /\ pausedProcessed' = 0
    /\ UNCHANGED <<appVars, idle, config, sample_rate, running, cry_frame_count, last_event_time,
                   audio_queue, pc, frame, stream, exc, now, attempts, produced,
                   loudRun, prevLoudRun, events, lastEvent, stopCalled>>

\* Variant of Stop: stopping also clears the run counted so far.
StopResetting ==
    /\ pc # "init"
    /\ running' = FALSE
    /\ stopCalled' = TRUE
    /\ cry_frame_count' = 0
    /\ UNCHANGED <<appVars, idle, config, sample_rate, paused, last_event_time,
                   audio_queue, pc, frame, stream, exc, now, attempts, produced,
                   loudRun, prevLoudRun, events, lastEvent, pausedProcessed>>

\* stop() on a started detector.
Stop ==
    /\ pc # "init"
    /\ running' = FALSE
    /\ stopCalled' = TRUE
    /\ UNCHANGED <<appVars, idle, config, sample_rate, paused, cry_frame_count, last_event_time,
                   audio_queue, pc, frame, stream, exc, now, attempts, produced,
                   loudRun, prevLoudRun, events, lastEvent, pausedProcessed>>

\* ------------------------------------------------------------ audio plumbing
\* _audio_callback, called by the audio backend while the stream is started.
AudioCallback ==
    /\ stream = "active"
    /\ produced < MaxFrames
    /\ \E s \in FrameSet :
         audio_queue' = Append(audio_queue,
                               [samples |-> s, enqPaused |-> paused])
    /\ produced' = produced + 1
    /\ UNCHANGED <<appVars, idle, config, sample_rate, running, paused, cry_frame_count,
                   last_event_time, pc, frame, stream, exc, now, attempts, loudRun, prevLoudRun,
                   events, lastEvent, stopCalled, pausedProcessed>>

\* ------------------------------------------------------------------ run()
RunBegin ==
    /\ pc = "ready"
    /\ running' = RunBeginRunning
    /\ pc' = "open"
    /\ UNCHANGED <<appVars, idle, config, sample_rate, paused, cry_frame_count, last_event_time,
                   audio_queue, frame, stream, exc, now, attempts, produced,
                   loudRun, prevLoudRun, events, lastEvent, stopCalled, pausedProcessed>>

\* First _open_stream, at the configured rate.
OpenFirst ==
    /\ pc = "open"
    /\ \E outcome \in OpenOutcomes :
         /\ attempts' = Append(attempts, [rate |-> sample_rate,
                                          blocksize |-> blocksize(sample_rate),
                                          outcome |-> outcome])
         /\ IF outcome = "ok"
            THEN stream' = "open" /\ pc' = "enter" /\ exc' = exc
            ELSE IF RetryOn(outcome)
            THEN stream' = stream /\ pc' = "retry" /\ exc' = exc
            ELSE stream' = stream /\ pc' = "except" /\ exc' = "open_error"
    /\ UNCHANGED <<appVars, idle, config, sample_rate, running, paused, cry_frame_count,
                   last_event_time, audio_queue, frame, now, produced, loudRun, prevLoudRun,
                   events, lastEvent, stopCalled, pausedProcessed>>

\* Second _open_stream, at the fallback rate, inside the except clause.
OpenFallback ==
    /\ pc = "retry"
    /\ \E outcome \in OpenOutcomes :
         /\ attempts' = Append(attempts, [rate |-> FallbackRate,
                                          blocksize |-> blocksize(FallbackRate),
                                          outcome |-> outcome])
         /\ IF outcome = "ok"
            THEN /\ stream' = "open"
                 /\ sample_rate' = FallbackRate
                 /\ pc' = "enter"
                 /\ exc' = exc
            ELSE /\ stream' = stream
                 /\ sample_rate' = sample_rate
                 /\ pc' = "except"
                 /\ exc' = "open_error"
    /\ UNCHANGED <<appVars, idle, config, running, paused, cry_frame_count, last_event_time,
                   audio_queue, frame, now, produced, loudRun, prevLoudRun, events, lastEvent,
                   stopCalled, pausedProcessed>>

\* `with stream:` entered: the stream is started.
EnterWith ==
    /\ pc = "enter"
    /\ stream' = "active"
    /\ pc' = "loop"
    /\ UNCHANGED <<appVars, idle, config, sample_rate, running, paused, cry_frame_count,
                   last_event_time, audio_queue, frame, exc, now, attempts, produced,
                   loudRun, prevLoudRun, events, lastEvent, stopCalled, pausedProcessed>>

\* `while self._running`
LoopTest ==
    /\ pc = "loop"
    /\ pc' = IF running THEN "get" ELSE "exit"
    /\ UNCHANGED <<appVars, idle, config, sample_rate, running, paused, cry_frame_count,
                   last_event_time, audio_queue, frame, stream, exc, now, attempts,
                   produced, loudRun, prevLoudRun, events, lastEvent, stopCalled,
                   pausedProcessed>>

\* self._audio_queue.get(timeout=1.0) returns a frame.
GetFrame ==
    /\ pc = "get"
    /\ audio_queue # <<>>
    /\ frame' = Head(audio_queue)
    /\ audio_queue' = Tail(audio_queue)
    /\ pc' = "pausecheck"
    /\ UNCHANGED <<appVars, idle, config, sample_rate, running, paused, cry_frame_count,
                   last_event_time, stream, exc, now, attempts, produced, loudRun, prevLoudRun,
                   events, lastEvent, stopCalled, pausedProcessed>>

\* Variant of GetTimeout: a second without audio counts as a quiet frame.
GetTimeoutQuiet ==
    /\ pc = "get"
    /\ audio_queue = <<>>
    /\ pc' = "loop"
    /\ cry_frame_count' = 0
    /\ idle' = NoteTimeout(idle)
    /\ UNCHANGED <<appVars, config, sample_rate, running, paused, last_event_time,
                   audio_queue, frame, stream, exc, now, attempts, produced,
                   loudRun, prevLoudRun, events, lastEvent, stopCalled,
                   pausedProcessed>>

\* self._audio_queue.get(timeout=1.0) raises queue.Empty: continue.
GetTimeout ==
    /\ pc = "get"
    /\ audio_queue = <<>>
    /\ pc' = "loop"
    /\ idle' = NoteTimeout(idle)
    /\ UNCHANGED <<appVars, config, sample_rate, running, paused, cry_frame_count,
                   last_event_time, audio_queue, frame, stream, exc, now, attempts,
                   produced, loudRun, prevLoudRun, events, lastEvent, stopCalled,
                   pausedProcessed>>

\* `if self._paused`: the frame is dropped, or goes on to the pipeline.
PauseCheck ==
    /\ pc = "pausecheck"
    /\ IF SkipFrame
       THEN pc' = "loop" /\ frame' = NoFrame
       ELSE pc' = "process" /\ frame' = frame
    /\ idle' = IF SkipFrame THEN NoteDropped(idle) ELSE idle
    /\ UNCHANGED <<appVars, config, sample_rate, running, paused, cry_frame_count,
                   last_event_time, audio_queue, stream, exc, now, attempts,
                   produced, loudRun, prevLoudRun, events, lastEvent, stopCalled,
                   pausedProcessed>>

\* Lines 167-183 for one frame: energy, clock, counter, cooldown, callback.
\* t is the clock reading, outcome what the callback does if it is invoked.
Process ==
    /\ pc = "process"
    /\ \E t \in now..MaxTime, outcome \in {"returned", "raised"} :
         LET energy == compute_frame_energy(frame.samples)
             count == NextCount(energy)
             fire == RunComplete(count) /\ CooldownElapsed(t)
             called == fire /\ config.on_cry_callback
             raised == called /\ outcome = "raised"
         IN  /\ now' = t
             /\ loudRun' = IF energy >= config.threshold THEN loudRun + 1 ELSE 0
             /\ prevLoudRun' = loudRun
             /\ pausedProcessed' = IF paused THEN pausedProcessed + 1
                                   ELSE pausedProcessed
             /\ last_event_time' = IF fire THEN EventTime(t) ELSE last_event_time
             /\ events' = IF fire THEN events + 1 ELSE events
             /\ lastEvent' = IF fire
                             THEN [t |-> t, energy |-> energy,
                                   callback |-> IF called THEN outcome ELSE "none"]
                             ELSE lastEvent
             /\ cry_frame_count' = IF RunComplete(count) /\ ~raised
                                   THEN CountAfterRun(count)
                                   ELSE count
             /\ exc' = IF raised THEN "callback_error" ELSE exc
             /\ pc' = IF raised THEN "exit" ELSE "loop"
    /\ frame' = NoFrame
    /\ idle' = NoteEvaluated(idle)
    /\ UNCHANGED <<appVars, config, sample_rate, running, paused, audio_queue, stream,
                   attempts, produced, stopCalled>>

\* Leaving `with stream:`, normally or by an exception: the stream is closed.
ExitWith ==
    /\ pc = "exit"
    /\ stream' = "closed"
    /\ pc' = IF exc = "none" THEN "finally" ELSE "except"
    /\ UNCHANGED <<appVars, idle, config, sample_rate, running, paused, cry_frame_count,
                   last_event_time, audio_queue, frame, exc, now, attempts, produced,
                   loudRun, prevLoudRun, events, lastEvent, stopCalled, pausedProcessed>>

\* `except Exception as e`: the error is printed and dropped.
ExceptHandler ==
    /\ pc = "except"
    /\ exc' = "none"
    /\ pc' = "finally"
    /\ UNCHANGED <<appVars, idle, config, sample_rate, running, paused, cry_frame_count,
                   last_event_time, audio_queue, frame, stream, now, attempts,
                   produced, loudRun, prevLoudRun, events, lastEvent, stopCalled,
                   pausedProcessed>>

\* `finally: self._running = False`, and run returns.
Finally ==
    /\ pc = "finally"
    /\ running' = FinallyRunning
    /\ pc' = "done"
    /\ UNCHANGED <<appVars, idle, config, sample_rate, paused, cry_frame_count, last_event_time,
                   audio_queue, frame, stream, exc, now, attempts, produced,
                   loudRun, prevLoudRun, events, lastEvent, stopCalled, pausedProcessed>>

\* The steps of the capture thread.
RunThread ==
    \/ RunBegin
    \/ OpenFirst
    \/ OpenFallback
    \/ EnterWith
    \/ LoopTest
    \/ GetFrame
    \/ GetTimeout
    \/ PauseCheck
    \/ Process
    \/ ExitWith
    \/ ExceptHandler
    \/ Finally

Next ==
    \/ Start
    \/ Pause
    \/ Resume
    \/ Stop
    \/ AudioCallback
    \/ RunThread

Spec == Init /\ [][Next]_vars

\* The capture thread, once started, keeps being scheduled.
LiveSpec == Spec /\ WF_vars(RunThread)

\* ------------------------------------------------ the boundary threshold 0
\* cry_energy_threshold = 0, the lowest value the configuration allows.
ZeroConfigs ==
    [threshold : {0},
     frames_required : 1..MaxFramesRequired,
     event_cooldown : {0, 2},
     on_cry_callback : {TRUE}]

\* The frames of energy 0.0: empty, all zero, made only of non-finite samples.
SilentFrames == { <<>>, <<0, 0>>, <<NonFinite, NonFinite>> }

\* _audio_callback delivering a frame of energy 0.0.
AudioCallbackSilent ==
    /\ stream = "active"
    /\ produced < MaxFrames
    /\ \E s \in SilentFrames :
         audio_queue' = Append(audio_queue,
                               [samples |-> s, enqPaused |-> paused])
    /\ produced' = produced + 1
    /\ UNCHANGED <<appVars, idle, config, sample_rate, running, paused,
                   cry_frame_count, last_event_time, pc, frame, stream, exc, now,
                   attempts, loudRun, prevLoudRun, events, lastEvent, stopCalled,
                   pausedProcessed>>

ZeroInit == DetectorStart(ZeroConfigs) /\ idle = IdleOff /\ AppIdle

ZeroNext == Start \/ Stop \/ AudioCallbackSilent \/ RunThread

ZeroSpec == ZeroInit /\ [][ZeroNext]_vars

\* The same detector with the history of its read timeouts kept. Pausing plays
\* no part in the timeouts: the detector is started, fed and stopped.
TimeoutInit == DetectorInit /\ idle = IdleTimeouts /\ AppIdle

TimeoutNext == Start \/ Stop \/ AudioCallback \/ RunThread

TimeoutSpec == TimeoutInit /\ [][TimeoutNext]_vars

\* The same detector with the history of its dropped frames kept. The cooldown
\* plays no part in the run across a pause: it is 0.
NoCooldown == {c \in Configs : c.event_cooldown = 0}

DropInit == DetectorStart(NoCooldown) /\ idle = IdleDrops /\ AppIdle

DropSpec == DropInit /\ [][Next]_vars

\* The detector constructed and left alone, under one configuration.
DetectorIdle ==
    /\ DetectorStart({c \in Configs : c.frames_required = 1 /\ c.event_cooldown = 0})
    /\ idle = IdleOff

\* ------------------------------------------------------------ normalise_audio
\* The integer dtypes modelled, by bit width: int8 and int16.
Widths == {8, 16}

RECURSIVE Pow2(_)
Pow2(n) == IF n = 0 THEN 1 ELSE 2 * Pow2(n - 1)

\* np.iinfo(dtype).max and .min of the signed integer type of w bits
iinfo_max(w) == Pow2(w - 1) - 1

iinfo_min(w) == -Pow2(w - 1)

\* A float as the fraction num/den, den > 0.
Fraction(n, d) == [num |-> n, den |-> d]

\* Arrays of at most MaxSamples elements drawn from S.
Arrays(S) == UNION { [1..n -> S] : n \in 0..MaxSamples }

\* The arrays handed to normalise_audio: integer ones of each width, with the
\* extreme values of the type among the samples, and float32 ones, whose
\* samples are held in halves (-2 is -1.0, 1 is 0.5).
WavInputs ==
    { [kind |-> "int", width |-> w, samples |-> a] :
        w \in Widths,
        a \in Arrays({-Pow2(15), -Pow2(7), -1, 0, 1, Pow2(7) - 1, Pow2(15) - 1}) }
    \cup
    { [kind |-> "float", width |-> 32, samples |-> a] :
        a \in Arrays(-2..2) }

\* An integer array holds values of its type only.
WellTyped(data) ==
    data.kind = "int" =>
        \A i \in 1..Len(data.samples) :
            /\ data.samples[i] >= iinfo_min(data.width)
            /\ data.samples[i] <= iinfo_max(data.width)

\* Lines 21-31. Integer input: astype(float32) is exact for 8 and 16 bits and
\* each sample is divided by float(iinfo.max); the quotient is kept as a
\* fraction, and float32 rounding, being monotone with 1.0 and -1.0
\* representable, does not change how it compares with them. Float input:
\* astype(float32) returns the samples as they are.
normalise_audio(data) ==
    IF data.kind = "int"
    THEN [i \in 1..Len(data.samples) |->
            Fraction(data.samples[i], iinfo_max(data.width))]
    ELSE [i \in 1..Len(data.samples) |-> Fraction(data.samples[i], 2)]

\* analyse_training_wavs line 53: data = normalise_audio(data)
Normalise ==
    /\ ~wav_out.done
    /\ wav_out' = [done |-> TRUE, samples |-> normalise_audio(wav_data)]
    /\ UNCHANGED <<detectorRest, paused, wav_data, lullaby_process, procs, reqs,
                   system_state, cry_thread, snapshot, recorded>>

\* The next file of the loop is read (line 52), replacing the previous array.
ReadWav ==
    /\ wav_out.done
    /\ wav_data' \in { d \in WavInputs : WellTyped(d) }
    /\ wav_out' = NotNormalised
    /\ UNCHANGED <<detectorRest, paused, lullaby_process, procs, reqs,
                   system_state, cry_thread, snapshot, recorded>>

WavInit ==
    /\ DetectorIdle
    /\ wav_data \in { d \in WavInputs : WellTyped(d) }
    /\ wav_out = NotNormalised
    /\ LullabyIdle
    /\ StateIdle

WavNext == Normalise \/ ReadWav

WavSpec == WavInit /\ [][WavNext]_vars

\* ------------------------------------------- lullaby player and its handlers
\* A playback process is running, terminated (sent terminate()) or exited (it
\* played its file to the end). Flask serves each request on its own thread;
\* play_lullaby and stop_lullaby each run under _lock, so each is one step.

\* `_lullaby_process and _lullaby_process.poll() is None`, lines 39 and 71
TrackedRunning(process, ps) == process # 0 /\ ps[process] = "running"

\* _lullaby_process.terminate() on the tracked process
Terminate(process, ps) == [ps EXCEPT ![process] = "terminated"]

\* Variant of play_lullaby: the previous playback is not stopped.
play_lullaby_over(found, popen) ==
    IF ~found
    THEN [process |-> lullaby_process, procs |-> procs, result |-> "not_found"]
    ELSE IF popen = "ok"
    THEN [process |-> Len(procs) + 1, procs |-> Append(procs, "running"),
          result |-> "started"]
    ELSE [process |-> 0, procs |-> procs, result |-> "failed"]

\* play_lullaby(name), lines 31-63: found is whether _resolve_sound finds the
\* sound, popen whether subprocess.Popen succeeds. The value is the tracked
\* process and the processes after the call, with the call's result.
play_lullaby(found, popen) ==
    LET stopPrevious == TrackedRunning(lullaby_process, procs)
        ps == IF stopPrevious THEN Terminate(lullaby_process, procs) ELSE procs
        tracked == IF stopPrevious THEN 0 ELSE lullaby_process
    IN  IF ~found
        THEN [process |-> tracked, procs |-> ps, result |-> "not_found"]
        ELSE IF popen = "ok"
        THEN [process |-> Len(ps) + 1, procs |-> Append(ps, "running"),
              result |-> "started"]
        ELSE [process |-> 0, procs |-> ps, result |-> "failed"]

\* stop_lullaby(), lines 65-78
stop_lullaby ==
    IF TrackedRunning(lullaby_process, procs)
    THEN [process |-> 0, procs |-> Terminate(lullaby_process, procs)]
    ELSE [process |-> lullaby_process, procs |-> procs]

\* The fields the handlers and the player leave alone. The detector here has
\* evaluated no frame, so resume() has no history to clear.
handlerRest == <<detectorRest, wav_data, wav_out, system_state, cry_thread,
                 snapshot, recorded>>

\* POST /api/lullaby/<name> arrives and runs up to cry_detector.pause(),
\* app.py lines 104-107.
ApiLullabyStartPause ==
    /\ Len(reqs) < MaxRequests
    /\ paused' = TRUE
    /\ reqs' = Append(reqs, [kind |-> "start", pc |-> "play", result |-> "pending"])
    /\ UNCHANGED <<handlerRest, lullaby_process, procs>>

\* Variant of ApiLullabyStartPlay: a start that fails resumes detection.
ApiLullabyStartPlayResuming ==
    \E i \in DOMAIN reqs, found \in BOOLEAN, popen \in {"ok", "raises"} :
        LET played == play_lullaby(found, popen)
        IN  /\ reqs[i].kind = "start"
            /\ reqs[i].pc = "play"
            /\ lullaby_process' = played.process
            /\ procs' = played.procs
            /\ reqs' = [reqs EXCEPT ![i] = [kind |-> "start", pc |-> "done",
                                            result |-> played.result]]
            /\ paused' = IF played.result = "started" THEN paused ELSE FALSE
            /\ UNCHANGED handlerRest

\* The same request goes on: ok = play_lullaby(name) and the response,
\* app.py lines 108-112. Detection is left paused whatever ok is.
ApiLullabyStartPlay ==
    \E i \in DOMAIN reqs, found \in BOOLEAN, popen \in {"ok", "raises"} :
        LET played == play_lullaby(found, popen)
        IN  /\ reqs[i].kind = "start"
            /\ reqs[i].pc = "play"
            /\ lullaby_process' = played.process
            /\ procs' = played.procs
            /\ reqs' = [reqs EXCEPT ![i] = [kind |-> "start", pc |-> "done",
                                            result |-> played.result]]
            /\ UNCHANGED <<handlerRest, paused>>

\* POST /api/lullaby/stop arrives and runs stop_lullaby(), app.py lines 114-116.
ApiLullabyStopStop ==
    /\ Len(reqs) < MaxRequests
    /\ lullaby_process' = stop_lullaby.process
    /\ procs' = stop_lullaby.procs
    /\ reqs' = Append(reqs, [kind |-> "stop", pc |-> "resume", result |-> "pending"])
    /\ UNCHANGED <<handlerRest, paused>>

\* The same request goes on: cry_detector.resume() and the response,
\* app.py lines 117-119.
ApiLullabyStopResume ==
    \E i \in DOMAIN reqs :
        /\ reqs[i].kind = "stop"
        /\ reqs[i].pc = "resume"
        /\ paused' = FALSE
        /\ reqs' = [reqs EXCEPT ![i] = [kind |-> "stop", pc |-> "done",
                                        result |-> "ok"]]
        /\ UNCHANGED <<handlerRest, lullaby_process, procs>>

\* POST /api/detect/pause, app.py lines 122-126.
ApiDetectPause ==
    /\ Len(reqs) < MaxRequests
    /\ paused' = TRUE
    /\ reqs' = Append(reqs, [kind |-> "detect_pause", pc |-> "done", result |-> "ok"])
    /\ UNCHANGED <<handlerRest, lullaby_process, procs>>

\* POST /api/detect/resume, app.py lines 128-132.
ApiDetectResume ==
    /\ Len(reqs) < MaxRequests
    /\ paused' = FALSE
    /\ reqs' = Append(reqs, [kind |-> "detect_resume", pc |-> "done", result |-> "ok"])
    /\ UNCHANGED <<handlerRest, lullaby_process, procs>>

\* aplay reaches the end of its file: poll() is no longer None.
ProcessExits ==
    \E p \in DOMAIN procs :
        /\ procs[p] = "running"
        /\ procs' = [procs EXCEPT ![p] = "exited"]
        /\ UNCHANGED <<handlerRest, paused, lullaby_process, reqs>>

LullabyInit == DetectorIdle /\ AppIdle

LullabyNext ==
    \/ ApiLullabyStartPause
    \/ ApiLullabyStartPlay
    \/ ApiLullabyStopStop
    \/ ApiLullabyStopResume
    \/ ApiDetectPause
    \/ ApiDetectResume
    \/ ProcessExits

LullabySpec == LullabyInit /\ [][LullabyNext]_vars

\* ------------------------------------------------------------- SystemState
\* record_cry runs on the detector's thread, called by on_cry_detected for
\* each fired event (app.py line 73); to_dict runs on the request threads of
\* /api/status. Both hold self.lock for their whole body.
stateRest == <<detectorRest, paused, wav_data, wav_out, lullaby_process, procs,
               reqs>>

\* on_cry_detected calls record_cry, which takes the lock (lines 54-55). There
\* are no more events than frames.
RecordAcquire ==
    /\ cry_thread = "idle"
    /\ system_state.cry_count < MaxFrames
    /\ system_state.lock = "free"
    /\ system_state' = [system_state EXCEPT !.lock = "held"]
    /\ cry_thread' = "locked"
    /\ UNCHANGED <<stateRest, snapshot, recorded>>

\* self.last_cry_time = datetime.now(), line 56
RecordStamp ==
    /\ cry_thread = "locked"
    /\ \E t \in 1..MaxTime :
         system_state' = [system_state EXCEPT !.last_cry_time = t]
    /\ cry_thread' = "stamped"
    /\ UNCHANGED <<stateRest, snapshot, recorded>>

\* self.cry_count += 1, line 57
RecordCount ==
    /\ cry_thread = "stamped"
    /\ system_state' = [system_state EXCEPT !.cry_count = @ + 1]
    /\ cry_thread' = "counted"
    /\ UNCHANGED <<stateRest, snapshot, recorded>>

\* The with block ends: the lock is released and record_cry returns.
RecordRelease ==
    /\ cry_thread = "counted"
    /\ system_state' = [system_state EXCEPT !.lock = "free"]
    /\ cry_thread' = "idle"
    /\ recorded' = recorded + 1
    /\ UNCHANGED <<stateRest, snapshot>>

\* Lines 61-65: isoformat of last_cry_time if it is set, else None, and cry_count.
Snapshot ==
    [taken |-> TRUE,
     last_cry_time |-> IF system_state.last_cry_time # 0
                       THEN JsonTime(system_state.last_cry_time)
                       ELSE JsonNull,
     cry_count |-> system_state.cry_count]

\* Variant of ToDict: the state is read without taking the lock.
ToDictUnlocked ==
    /\ snapshot' = Snapshot
    /\ UNCHANGED <<stateRest, system_state, cry_thread, recorded>>

\* to_dict(), lines 59-65, for /api/status: it holds the lock from before its
\* first read until after its last, so it runs only while record_cry does not.
ToDict ==
    /\ system_state.lock = "free"
    /\ snapshot' = Snapshot
    /\ UNCHANGED <<stateRest, system_state, cry_thread, recorded>>

StateInit == DetectorIdle /\ AppIdle

StateNext ==
    \/ RecordAcquire
    \/ RecordStamp
    \/ RecordCount
    \/ RecordRelease
    \/ ToDict

StateSpec == StateInit /\ [][StateNext]_vars

\* ===================================================================== claims
\* The step that evaluates the dequeued frame (lines 167-183).
ProcessStep == pc = "process" /\ pc' # "process"

\* Energy of the frame about to be evaluated.
FrameEnergy == compute_frame_energy(frame.samples)

FrameIsLoud == FrameEnergy >= config.threshold

\* An event is fired in this step.
Fires == events' = events + 1

\* C1. Debounce: an event is fired only by the step that evaluates a frame, and
\* only when that frame completes a run of frames_required consecutive
\* evaluated frames that are all loud; a quiet frame fires nothing and leaves
\* the counter at 0, so frames_required - 1 loud frames followed by a quiet one
\* fire no event and end with the counter at 0.
Debounce ==
    /\ [][events' # events => ProcessStep /\ Fires]_vars
    /\ [][ProcessStep /\ Fires
            => FrameIsLoud /\ loudRun' >= config.frames_required]_vars
    /\ [][ProcessStep /\ ~FrameIsLoud
            => events' = events /\ cry_frame_count' = 0]_vars

\* frames_required = 2: one loud frame, then a quiet one, have been evaluated;
\* no event, counter 0.
DebounceWitness ==
    /\ config.frames_required = 2
    /\ pc = "loop"
    /\ prevLoudRun = config.frames_required - 1
    /\ loudRun = 0
    /\ events = 0
    /\ cry_frame_count = 0

\* C2. First event: while no event has fired yet, the frame that completes a
\* run of frames_required consecutive loud frames fires an event, the first,
\* carrying that frame's energy and the clock reading of that moment, whatever
\* that reading is.
FirstEvent ==
    [][ProcessStep /\ events = 0 /\ loudRun' = config.frames_required
         => /\ events' = 1
            /\ lastEvent'.t = now'
            /\ lastEvent'.energy = FrameEnergy
            /\ last_event_time' = now']_vars

\* A run of frames_required consecutive loud frames, counted as the code counts
\* it (from the last evaluation or quiet frame), completes in this step.
QualifyingRun ==
    /\ ProcessStep
    /\ loudRun' > 0
    /\ loudRun' % config.frames_required = 0

\* C3. Cooldown: two consecutive events are at least event_cooldown apart; once
\* an event has fired, a qualifying run that completes less than event_cooldown
\* after it fires nothing, and one that completes event_cooldown or more after
\* it fires exactly one event and sets last_event_time to that time.
Cooldown ==
    /\ [][Fires /\ events > 0
            => now' - lastEvent.t >= config.event_cooldown]_vars
    /\ [][QualifyingRun /\ events > 0 /\ now' - lastEvent.t < config.event_cooldown
            => events' = events /\ last_event_time' = last_event_time]_vars
    /\ [][QualifyingRun /\ events > 0 /\ now' - lastEvent.t >= config.event_cooldown
            => /\ Fires
               /\ lastEvent'.t = now'
               /\ last_event_time' = now']_vars

\* frames_required = 1, cooldown 2: three loud frames evaluated, two events: one
\* run was blocked by the cooldown, a later one fired.
CooldownWitness ==
    /\ config.frames_required = 1
    /\ config.event_cooldown = 2
    /\ loudRun = 3
    /\ events = 2
    /\ last_event_time = lastEvent.t
    /\ pc = "loop"

\* C4. Always-reset: after every evaluated frame the counter is between 0 and
\* frames_required - 1: reaching frames_required resets it in the same step.
AlwaysReset ==
    /\ cry_frame_count >= 0
    /\ cry_frame_count <= config.frames_required - 1

\* C5. Paused means silent: in no state where paused is true does the capture
\* loop increment the counter or fire an event.
PausedSilent ==
    [][paused => ~(cry_frame_count' > cry_frame_count) /\ events' = events]_vars

\* C5, amended. The pause flag is read once per frame, at line 162: a frame whose
\* check sees paused = true is dropped without touching the counter, the clock
\* or the callback, and between a pause() and the next resume() at most one
\* frame is evaluated, the one that had passed its check before pause().
PausedSilentAfterCheck ==
    /\ [](pausedProcessed <= 1)
    /\ [][pc = "pausecheck" /\ paused /\ pc' # pc
            => /\ pc' = "loop"
               /\ frame' = NoFrame
               /\ cry_frame_count' = cry_frame_count
               /\ last_event_time' = last_event_time
               /\ events' = events
               /\ loudRun' = loudRun]_vars
    /\ [][ProcessStep /\ paused => pausedProcessed = 0]_vars

\* pause() arrived between the check and the evaluation of a loud frame: the
\* frame was evaluated while paused and the counter went up.
PausedSilentWitness ==
    /\ paused
    /\ pausedProcessed = 1
    /\ cry_frame_count = 1
    /\ pc = "loop"

\* C6. Frames delivered during a pause are discarded: no frame the audio
\* callback enqueued while paused was true is ever evaluated.
PausedFramesDiscarded == [][ProcessStep => ~frame.enqPaused]_vars

\* C7. Callback failure is tolerated: when the callback raises for a fired
\* event, the loop goes on: running is not changed, the stream stays open and
\* the thread is back at the head of the loop.
CallbackTolerated ==
    [][Fires /\ lastEvent'.callback = "raised"
         => running' = running /\ stream' = "active" /\ pc' = "loop"]_vars

\* run has returned with the stream released and running false.
Stopped == pc = "done" /\ ~running /\ stream \in {"none", "closed"}

\* C8. Stop is honoured: once stop() has been called on a started detector, run
\* eventually returns, with the stream released and running false.
StopHonoured == stopCalled ~> Stopped

\* C9. Sample-rate fallback: the first open is at the configured rate; a second
\* open is made only after an invalid-sample-rate failure of the first, always
\* then, and at 48000 Hz with the block size of that rate; there is no third.
\* When the second open succeeds sample_rate is 48000, the stream is entered
\* and no error is raised; any other failure of the first open ends run without
\* a retry; sample_rate changes in no other case.
SampleRateFallback ==
    /\ Len(attempts) <= 2
    /\ Len(attempts) >= 1 =>
         /\ attempts[1].rate = DefaultSampleRate
         /\ attempts[1].blocksize = DefaultSampleRate \div 2
    /\ Len(attempts) = 2 =>
         /\ attempts[1].outcome = "invalid_sample_rate"
         /\ attempts[2].rate = FallbackRate
         /\ attempts[2].blocksize = FallbackRate \div 2
    /\ (Len(attempts) = 1 /\ attempts[1].outcome = "invalid_sample_rate") =>
         pc = "retry"
    /\ (Len(attempts) = 1 /\ attempts[1].outcome = "other_error") =>
         pc \in {"except", "finally", "done"} /\ stream = "none"
    /\ (Len(attempts) = 2 /\ attempts[2].outcome = "ok") =>
         /\ sample_rate = FallbackRate
         /\ stream # "none"
         /\ pc \notin {"open", "retry"}
         /\ exc # "open_error"
    /\ sample_rate = FallbackRate =>
         Len(attempts) = 2 /\ attempts[2].outcome = "ok"
    /\ pc = "done" => exc = "none"

\* The configured rate was refused, 48000 Hz was accepted, and the loop is
\* waiting for a frame.
SampleRateFallbackWitness ==
    /\ Len(attempts) = 2
    /\ attempts[1].outcome = "invalid_sample_rate"
    /\ attempts[2].outcome = "ok"
    /\ sample_rate = FallbackRate
    /\ stream = "active"
    /\ pc = "get"

\* The device could not be opened, or an error was raised inside `with stream`.
OpenFailed ==
    /\ attempts # <<>>
    /\ attempts[Len(attempts)].outcome # "ok"
    /\ Len(attempts) = 2 \/ attempts[1].outcome = "other_error"

ErrorInUse == events > 0 /\ lastEvent.callback = "raised"

Failed == OpenFailed \/ ErrorInUse

\* Steps of run left before it returns, once it is unwinding.
StepsLeft ==
    CASE pc = "exit" -> 3
      [] pc = "except" -> 2
      [] pc = "finally" -> 1
      [] pc = "done" -> 0
      [] OTHER -> 4

QueueBounded == Len(audio_queue) < MaxFrames

\* What the counter becomes when one more loud frame is counted.
CountsOn ==
    IF cry_frame_count + 1 >= config.frames_required
    THEN cry_frame_count' \in {0, cry_frame_count + 1}
    ELSE cry_frame_count' = cry_frame_count + 1

\* C14. Read timeouts are harmless: the iteration in which the queue wait times
\* out changes neither the counter, last_event_time, paused, running nor the
\* events, and the thread is back at the head of the loop; a loud frame
\* evaluated after timeouts continues the run of the frames before them.
ReadTimeoutHarmless ==
    /\ [](pc = "get" /\ audio_queue = <<>> => ENABLED GetTimeout)
    /\ [][pc = "get" /\ pc' # pc /\ audio_queue = <<>>
            => /\ pc' = "loop"
               /\ UNCHANGED <<cry_frame_count, last_event_time, paused, running,
                              events, lastEvent, loudRun, stream, exc>>]_vars
    /\ [][ProcessStep /\ idle.seen /\ FrameIsLoud
            => loudRun' = loudRun + 1 /\ CountsOn]_vars

\* frames_required = 2: a loud frame, at least one timeout, a second loud
\* frame, no other frame delivered: the run is complete and the event has fired.
ReadTimeoutWitness ==
    /\ config.frames_required = 2
    /\ idle.track = "timeouts"
    /\ idle.seenBefore
    /\ produced = 2
    /\ prevLoudRun = 1
    /\ loudRun = 2
    /\ cry_frame_count = 0
    /\ events = 1
    /\ pc = "loop"

\* The fields of the detector other than the two flags and the two counters.
detectorPlumbing == <<config, sample_rate, audio_queue, pc, frame, stream, exc>>

\* C15. Single writer: a step that changes paused (pause, resume) changes no
\* other field of the detector; stop() changes only running; the counter and
\* last_event_time change only in the capture loop's frame evaluation.
SingleWriter ==
    /\ [][paused' # paused
            => UNCHANGED <<running, cry_frame_count, last_event_time,
                           detectorPlumbing>>]_vars
    /\ [][stopCalled' # stopCalled \/ (running' # running /\ pc' = pc)
            => UNCHANGED <<paused, cry_frame_count, last_event_time,
                           detectorPlumbing>>]_vars
    /\ [][cry_frame_count' # cry_frame_count \/ last_event_time' # last_event_time
            => ProcessStep]_vars

\* pause() and stop() were called in the middle of a run: the counter is intact.
SingleWriterWitness ==
    /\ stopCalled
    /\ paused
    /\ ~running
    /\ cry_frame_count = 1
    /\ last_event_time = 2

\* C18. Pause preserves the run: pause() and resume() leave the counter as it
\* is, and so does dropping a frame at the pause check; a loud frame evaluated
\* after dropped frames continues the run of the frames evaluated before them.
PausePreservesRun ==
    /\ [][paused' # paused
            => cry_frame_count' = cry_frame_count /\ loudRun' = loudRun]_vars
    /\ [][pc = "pausecheck" /\ pc' = "loop"
            => cry_frame_count' = cry_frame_count /\ loudRun' = loudRun]_vars
    /\ [][ProcessStep /\ idle.seen /\ FrameIsLoud
            => loudRun' = loudRun + 1 /\ CountsOn]_vars

\* frames_required = 2: a loud frame, a pause during which a frame was dropped,
\* resume, and the next loud frame completed the run and fired the event.
PausePreservesRunWitness ==
    /\ config.frames_required = 2
    /\ idle.track = "drops"
    /\ idle.seenBefore
    /\ prevLoudRun = 1
    /\ loudRun = 2
    /\ cry_frame_count = 0
    /\ events = 1
    /\ lastEvent.t = now
    /\ ~paused
    /\ pausedProcessed = 0
    /\ pc = "loop"

\* C12. Threshold zero boundary, as claimed: with cry_energy_threshold = 0 a
\* frame of energy 0.0 does not count as loud: evaluating it does not increment
\* the counter and fires no event.
ZeroEnergyNotLoud ==
    [][ProcessStep /\ config.threshold = 0 /\ FrameEnergy = 0
         => cry_frame_count' <= cry_frame_count /\ ~Fires]_vars

\* C12, amended. With cry_energy_threshold = 0 a frame of energy 0.0 counts as
\* loud, since the comparison is >=: evaluating it extends the run by one, and
\* fires the event when it completes the run outside the cooldown.
ZeroEnergyLoud ==
    [][ProcessStep /\ config.threshold = 0 /\ FrameEnergy = 0
         => /\ loudRun' = loudRun + 1
            /\ CountsOn
            /\ (/\ cry_frame_count + 1 >= config.frames_required
                /\ now' - last_event_time >= config.event_cooldown) => Fires]_vars

\* Threshold 0, frames_required = 2: two frames of energy 0.0 fired an event.
ZeroEnergyLoudWitness ==
    /\ config.threshold = 0
    /\ config.frames_required = 2
    /\ loudRun = 2
    /\ events = 1
    /\ lastEvent.energy = 0
    /\ cry_frame_count = 0

\* The fraction lies in [-1.0, 1.0]; it is 1.0; it is -1.0.
InUnit(q) == -q.den <= q.num /\ q.num <= q.den

IsOne(q) == q.num = q.den

IsMinusOne(q) == q.num = -q.den

\* C13. Normalizer range: normalise_audio maps every sample of an integer
\* array into [-1.0, 1.0], the maximum of the type to 1.0 and the minimum of
\* the type to -1.0.
NormaliserRange ==
    (wav_out.done /\ wav_data.kind = "int") =>
        \A i \in 1..Len(wav_data.samples) :
            /\ InUnit(wav_out.samples[i])
            /\ wav_data.samples[i] = iinfo_max(wav_data.width)
                 => IsOne(wav_out.samples[i])
            /\ wav_data.samples[i] = iinfo_min(wav_data.width)
                 => IsMinusOne(wav_out.samples[i])

\* The playback processes in state st.
ProcsIn(st) == { p \in DOMAIN procs : procs[p] = st }

\* This step is a stop_lullaby() call: a stop request has arrived.
StopLullabyStep ==
    /\ Len(reqs') = Len(reqs) + 1
    /\ reqs'[Len(reqs')].kind = "stop"

\* This step is a play_lullaby() call, with the given result.
PlayLullabyStep(res) ==
    \E i \in DOMAIN reqs :
        /\ reqs[i].pc = "play"
        /\ reqs'[i].pc = "done"
        /\ reqs'[i].result \in res

PlaybackImpliesPaused ==
    (/\ \A i \in DOMAIN reqs : reqs[i].kind \in {"start", "stop"}
     /\ TrackedRunning(lullaby_process, procs))
        => paused

\* This step is a resume() made by a stop request or by /api/detect/resume.
ResumeRequested ==
    \/ \E i \in DOMAIN reqs :
         /\ reqs[i].kind = "stop"
         /\ reqs[i].pc = "resume"
         /\ reqs'[i].pc = "done"
    \/ /\ Len(reqs') = Len(reqs) + 1
       /\ reqs'[Len(reqs')].kind = "detect_resume"

\* C19. Failed lullaby start leaves detection paused: a start request pauses
\* the detector before it calls play_lullaby, the call leaves paused as it is
\* when it returns False, and paused becomes false again only by the resume()
\* of a stop request or of /api/detect/resume.
FailedStartStaysPaused ==
    /\ [][(/\ Len(reqs') = Len(reqs) + 1
           /\ reqs'[Len(reqs')].kind = "start") => paused']_vars
    /\ [](\A i \in DOMAIN reqs :
            (reqs[i].kind = "start" /\ reqs[i].result # "pending")
                => reqs[i].pc = "done")
    /\ [][PlayLullabyStep({"not_found", "failed"}) => paused' = paused]_vars
    /\ [][paused /\ ~paused' => ResumeRequested]_vars

\* The only request made was a start that failed: no playback and the detector
\* is paused.
FailedStartWitness ==
    /\ Len(reqs) = 1
    /\ reqs[1].kind = "start"
    /\ reqs[1].pc = "done"
    /\ reqs[1].result \in {"not_found", "failed"}
    /\ lullaby_process = 0
    /\ paused

\* C20. Status consistency: cry_count is the number of completed record_cry
\* calls, plus the one that has counted and not yet returned, and never
\* decreases; every snapshot of to_dict shows the number of calls completed
\* when it was taken, and its last_cry_time is None exactly when its cry_count
\* is 0.
StatusConsistent ==
    /\ [](system_state.cry_count =
            IF cry_thread = "counted" THEN recorded + 1 ELSE recorded)
    /\ [][system_state'.cry_count >= system_state.cry_count]_vars
    /\ [][snapshot' # snapshot => snapshot'.cry_count = recorded]_vars
    /\ [](snapshot.taken =>
            (snapshot.last_cry_time.null <=> snapshot.cry_count = 0))

\* A snapshot taken after the first cry, while the second is being recorded:
\* the time is already stamped, the count not yet incremented.
StatusConsistentWitness ==
    /\ snapshot.taken
    /\ snapshot.cry_count = 1
    /\ ~snapshot.last_cry_time.null
    /\ recorded = 1
    /\ cry_thread = "stamped"
    /\ system_state.last_cry_time # snapshot.last_cry_time.iso

====
